---------------------------- MODULE Spec2Model ----------------------------
(***************************************************************************)
(* A model of 3euro.py, the euronews scraper: the link-collection loop     *)
(* over the listing pages, the article-extraction loop over the collected  *)
(* links, the assembly of the result table and the release of the browser  *)
(* session.                                                                *)
(*                                                                         *)
(* Strings that the program inspects (hrefs, URLs, paragraph text) are     *)
(* sequences of one-character strings, so that startswith, the substring   *)
(* test, the regular expression, urljoin, strip and join are computed      *)
(* character by character as the program computes them.  The hrefs and     *)
(* texts contain no '?', '#' or ';' and no scheme other than https.        *)
(***************************************************************************)
EXTENDS Naturals, Sequences, FiniteSets

VARIABLES
    pc,                 \* position of the script
    driver,             \* the module-level driver handle: "None", "open", "closed"
    quit_calls,         \* number of driver.quit() calls made
    top_error,          \* the top-level except clause has run
    page_num,           \* loop variable of the page loop
    all_article_links,  \* the set of collected article URLs
    page_links_found,   \* per-page counter of qualifying links
    page_outcome,       \* how the last page iteration ended
    page_slept,         \* time.sleep(request_delay) ran in the last page iteration
    loaded,             \* page indices passed to driver.get, in call order
    links_to_process,   \* list(all_article_links)
    i,                  \* loop variable of the article loop (0-based)
    article_data,       \* the list of article records
    article_soup,       \* the parsed document of the last fetched article
    article_outcome,    \* how the last article iteration ended
    article_slept,      \* time.sleep(article_request_delay) ran in the last article iteration
    fetched,            \* links passed to requests.get, in call order
    failed              \* links whose iteration ended in an except clause

vars == <<pc, driver, quit_calls, top_error, page_num, all_article_links,
          page_links_found, page_outcome, page_slept, loaded, links_to_process,
          i, article_data, article_soup, article_outcome, article_slept,
          fetched, failed>>

-----------------------------------------------------------------------------
(* Bounds of the model *)

MaxContainers == 1
MaxHrefs == 2
MaxParagraphs == 2

(* Program constants *)

max_pages_to_scrape == 5

base_url == <<"h", "t", "t", "p", "s", ":", "/", "/", "w", "w", "w", ".", "e", "u", "r", "o", "n", "e", "w", "s", ".", "c", "o", "m", "/">>

excluded_patterns ==
    << <<"/", "t", "a", "g", "/">>,
       <<"/", "m", "y", "-", "e", "u", "r", "o", "p", "e", "/">>,
       <<"/", "v", "i", "d", "e", "o", "/">>,
       <<"/", "c", "u", "l", "t", "u", "r", "e", "/">>,
       <<"/", "g", "r", "e", "e", "n", "/">>,
       <<"/", "p", "r", "o", "g", "r", "a", "m", "s", "/">>,
       <<"/", "l", "i", "v", "e">>,
       <<"/", "w", "i", "d", "g", "e", "t", "s">>,
       <<"/", "b", "u", "s", "i", "n", "e", "s", "s", "/", "m", "a", "r", "k", "e", "t", "s">> >>

NA == <<"N", "/", "A">>

-----------------------------------------------------------------------------
(* String operations *)

Digits == {"0", "1", "2", "3", "4", "5", "6", "7", "8", "9"}

Letters == {"a", "b", "c", "d", "e", "f", "g", "h", "i", "j", "k", "l", "m",
            "n", "o", "p", "q", "r", "s", "t", "u", "v", "w", "x", "y", "z"}

Whitespace == {" ", "\n", "\t"}

\* str.startswith
StartsWith(s, p) ==
    /\ Len(p) <= Len(s)
    /\ SubSeq(s, 1, Len(p)) = p

\* the `in` operator on strings
Contains(s, sub) ==
    \E k \in 1..(Len(s) + 1) :
        /\ k + Len(sub) - 1 <= Len(s)
        /\ SubSeq(s, k, k + Len(sub) - 1) = sub

\* re.search(r'/\d{4}/\d{2}/\d{2}/', s)
MatchesArticlePattern(s) ==
    \E k \in 1..Len(s) :
        /\ k + 11 <= Len(s)
        /\ s[k] = "/"
        /\ \A d \in 1..4 : s[k + d] \in Digits
        /\ s[k + 5] = "/"
        /\ \A d \in 6..7 : s[k + d] \in Digits
        /\ s[k + 8] = "/"
        /\ \A d \in 9..10 : s[k + d] \in Digits
        /\ s[k + 11] = "/"

\* index of the first character of s at or after k that is in cs, else Len(s) + 1
RECURSIVE FindFrom(_, _, _)
FindFrom(s, k, cs) ==
    IF k > Len(s) THEN Len(s) + 1
    ELSE IF s[k] \in cs THEN k
    ELSE FindFrom(s, k + 1, cs)

\* str.split(sep) for a one-character separator
RECURSIVE Split(_, _)
Split(s, sep) ==
    LET k == FindFrom(s, 1, {sep})
    IN  IF k > Len(s) THEN <<s>>
        ELSE <<SubSeq(s, 1, k - 1)>> \o Split(SubSeq(s, k + 1, Len(s)), sep)

\* sep.join(parts)
RECURSIVE Join(_, _)
Join(parts, sep) ==
    IF parts = <<>> THEN <<>>
    ELSE IF Len(parts) = 1 THEN parts[1]
    ELSE parts[1] \o sep \o Join(Tail(parts), sep)

\* str.strip()
RECURSIVE LStrip(_)
LStrip(s) ==
    IF s # <<>> /\ s[1] \in Whitespace THEN LStrip(Tail(s)) ELSE s

RECURSIVE RStrip(_)
RStrip(s) ==
    IF s # <<>> /\ s[Len(s)] \in Whitespace
    THEN RStrip(SubSeq(s, 1, Len(s) - 1)) ELSE s

Strip(s) == RStrip(LStrip(s))

-----------------------------------------------------------------------------
(* urllib.parse.urljoin, reached through requests.compat.urljoin *)

SchemeChars == Letters \cup Digits \cup {"+", "-", "."}

\* urlsplit: the scheme, the network location and the path of a URL
UrlSplit(url, default_scheme) ==
    LET colon == FindFrom(url, 1, {":"})
        has_scheme ==
            /\ colon > 1
            /\ colon <= Len(url)
            /\ url[1] \in Letters
            /\ \A k \in 1..(colon - 1) : url[k] \in SchemeChars
        scheme == IF has_scheme THEN SubSeq(url, 1, colon - 1) ELSE default_scheme
        rest == IF has_scheme THEN SubSeq(url, colon + 1, Len(url)) ELSE url
        has_netloc == Len(rest) >= 2 /\ SubSeq(rest, 1, 2) = <<"/", "/">>
        delim == FindFrom(rest, 3, {"/", "?", "#"})
        netloc == IF has_netloc THEN SubSeq(rest, 3, delim - 1) ELSE <<>>
        path == IF has_netloc THEN SubSeq(rest, delim, Len(rest)) ELSE rest
        bad_brackets ==
            /\ has_netloc
            /\ ("[" \in {netloc[k] : k \in 1..Len(netloc)})
                 # ("]" \in {netloc[k] : k \in 1..Len(netloc)})
    IN  [scheme |-> scheme, netloc |-> netloc, path |-> path,
         error |-> bad_brackets]

\* the removal of '.' and '..' segments
RECURSIVE ResolveSegments(_, _)
ResolveSegments(segments, resolved) ==
    IF segments = <<>> THEN resolved
    ELSE LET seg == Head(segments)
         IN  IF seg = <<".", ".">>
             THEN ResolveSegments(Tail(segments),
                      IF resolved = <<>> THEN <<>>
                      ELSE SubSeq(resolved, 1, Len(resolved) - 1))
             ELSE IF seg = <<".">>
             THEN ResolveSegments(Tail(segments), resolved)
             ELSE ResolveSegments(Tail(segments), Append(resolved, seg))

\* urlunparse for a URL that has a network location
UrlUnsplit(scheme, netloc, path) ==
    scheme \o <<":">> \o <<"/", "/">> \o netloc
        \o (IF path # <<>> /\ path[1] # "/" THEN <<"/">> ELSE <<>>) \o path

\* urljoin(base, url) for a reference that starts with '/' or carries a scheme;
\* the result is [error |-> TRUE] where urljoin raises ValueError
UrlJoin(base, url) ==
    LET b == UrlSplit(base, <<>>)
        u == UrlSplit(url, b.scheme)
        segments == Split(u.path, "/")
        resolved == ResolveSegments(segments, <<>>)
        closed == IF segments[Len(segments)] \in {<<".">>, <<".", ".">>}
                  THEN Append(resolved, <<>>) ELSE resolved
        joined == Join(closed, <<"/">>)
    IN  IF u.error THEN [error |-> TRUE, url |-> <<>>]
        ELSE IF url = <<>> THEN [error |-> FALSE, url |-> base]
        ELSE IF u.scheme # b.scheme THEN [error |-> FALSE, url |-> url]
        ELSE IF u.netloc # <<>>
        THEN [error |-> FALSE, url |-> UrlUnsplit(u.scheme, u.netloc, u.path)]
        ELSE IF u.path = <<>> THEN [error |-> FALSE, url |-> base]
        ELSE [error |-> FALSE,
              url |-> UrlUnsplit(b.scheme, b.netloc,
                                 IF joined = <<>> THEN <<"/">> ELSE joined)]

-----------------------------------------------------------------------------
(* The link filter of the collection loop *)

\* any(pattern in full_url for pattern in excluded_patterns)
IsExcluded(full_url) ==
    \E k \in 1..Len(excluded_patterns) : Contains(full_url, excluded_patterns[k])

\* What the loop body does with one href: "skip" when the href fails the
\* startswith/len test or the URL filter, "raise" when urljoin raises
\* ValueError, "add" together with the URL that is added to the set.
FilterHref(href) ==
    IF href # <<>> /\ StartsWith(href, <<"/">>) /\ Len(href) > 1
    THEN LET full_url == UrlJoin(base_url, href)
         IN  IF full_url.error THEN [verdict |-> "raise", url |-> <<>>]
             ELSE IF ~IsExcluded(full_url.url) /\ MatchesArticlePattern(full_url.url)
             THEN [verdict |-> "add", url |-> full_url.url]
             ELSE [verdict |-> "skip", url |-> <<>>]
    ELSE [verdict |-> "skip", url |-> <<>>]

(* The hrefs that the listing pages of the model carry *)

HrefA == <<"/", "2", "0", "2", "4", "/", "0", "1", "/", "0", "2", "/", "a">>
HrefB == <<"/", "2", "0", "2", "3", "/", "1", "1", "/", "3", "0", "/", "b">>
HrefEvil == <<"/", "/", "e", "v", "i", "l", ".", "c", "o", "m", "/", "2", "0", "2", "4", "/", "0", "1", "/", "0", "2", "/", "x">>
HrefTag == <<"/", "t", "a", "g", "/", "2", "0", "2", "4", "/", "0", "1", "/", "0", "2", "/", "a">>
HrefDots == <<"/", "2", "0", "2", "4", "/", "0", "1", "/", "0", "2", "/", ".", ".", "/", "c">>
HrefRoot == <<"/">>
HrefBracket == <<"/", "/", "[">>

Hrefs == {HrefA, HrefB, HrefEvil, HrefTag, HrefDots, HrefRoot, HrefBracket}

\* FilterHref on the hrefs of the model, evaluated once
href_verdict == [h \in Hrefs |-> FilterHref(h)]

\* sequences over S of length lo..hi
SeqsOf(S, lo, hi) == UNION {[1..n -> S] : n \in lo..hi}

\* A container is the list of the href attributes of the <a href> elements
\* found in it; a page with containers is a non-empty list of containers.
Containers == SeqsOf(Hrefs, 0, MaxHrefs)

Pages == SeqsOf(Containers, 1, MaxContainers)

\* the two nested for loops: the hrefs in the order the loops visit them
RECURSIVE Flatten(_)
Flatten(containers) ==
    IF containers = <<>> THEN <<>>
    ELSE Head(containers) \o Flatten(Tail(containers))

\* The scan of one page from page_links_found = 0: the URLs added, the
\* counter, and whether urljoin raised before the scan finished.
RECURSIVE ScanHrefs(_, _, _)
ScanHrefs(hrefs, added, found) ==
    IF hrefs = <<>> THEN [added |-> added, found |-> found, raised |-> FALSE]
    ELSE LET v == href_verdict[Head(hrefs)]
         IN  IF v.verdict = "raise"
             THEN [added |-> added, found |-> found, raised |-> TRUE]
             ELSE IF v.verdict = "add"
             THEN ScanHrefs(Tail(hrefs), added \cup {v.url}, found + 1)
             ELSE ScanHrefs(Tail(hrefs), added, found)

ScanPage(containers) == ScanHrefs(Flatten(containers), {}, 0)

\* the scans that the pages of the model produce
PageScans == {ScanPage(p) : p \in Pages}

-----------------------------------------------------------------------------
(* Start of the script and the link-collection loop *)

NoSoup == [parsed |-> FALSE]

Init ==
    /\ pc = "start"
    /\ driver = "None"
    /\ quit_calls = 0
    /\ top_error = FALSE
    /\ page_num = 0
    /\ all_article_links = {}
    /\ page_links_found = 0
    /\ page_outcome = "none"
    /\ page_slept = FALSE
    /\ loaded = <<>>
    /\ links_to_process = <<>>
    /\ i = 0
    /\ article_data = <<>>
    /\ article_soup = NoSoup
    /\ article_outcome = "none"
    /\ article_slept = FALSE
    /\ fetched = <<>>
    /\ failed = {}

collect_vars == <<page_num, all_article_links, page_links_found, page_outcome,
                  page_slept, loaded>>

extract_vars == <<links_to_process, i, article_data, article_soup,
                  article_outcome, article_slept, fetched, failed>>

\* driver = webdriver.Chrome(options=options) returns
CreateDriver ==
    /\ pc = "start"
    /\ driver' = "open"
    /\ pc' = "collect"
    /\ UNCHANGED <<quit_calls, top_error, collect_vars, extract_vars>>

\* webdriver.Chrome raises: the top-level except clause runs, driver stays None
CreateDriverFails ==
    /\ pc = "start"
    /\ top_error' = TRUE
    /\ pc' = "finally"
    /\ UNCHANGED <<driver, quit_calls, collect_vars, extract_vars>>

\* `continue`, or the end of the loop body: the next index of range(5), or the
\* end of the loop, which leaves page_num at its last value
NextPage ==
    IF page_num + 1 < max_pages_to_scrape
    THEN page_num' = page_num + 1 /\ pc' = "collect"
    ELSE page_num' = page_num /\ pc' = "collected"

\* `break`
BreakPages ==
    /\ page_num' = page_num
    /\ pc' = "collected"

PageSkipExceptions == {"TimeoutException", "NoSuchElementException", "Exception"}

\* PageSkip with `break` in place of `continue`
PageSkip_Breaks(exc) ==
    /\ pc = "collect"
    /\ loaded' = Append(loaded, page_num)
    /\ page_outcome' = exc
    /\ page_slept' = FALSE
    /\ BreakPages
    /\ UNCHANGED <<driver, quit_calls, top_error, all_article_links,
                   page_links_found, extract_vars>>

\* driver.get, the wait or the parse raises an exception that is skipped
PageSkip(exc) ==
    /\ pc = "collect"
    /\ loaded' = Append(loaded, page_num)
    /\ page_outcome' = exc
    /\ page_slept' = FALSE
    /\ NextPage
    /\ UNCHANGED <<driver, quit_calls, top_error, all_article_links,
                   page_links_found, extract_vars>>

\* driver.get or the wait raises a WebDriverException
PageAbort ==
    /\ pc = "collect"
    /\ loaded' = Append(loaded, page_num)
    /\ page_outcome' = "WebDriverException"
    /\ page_slept' = FALSE
    /\ BreakPages
    /\ UNCHANGED <<driver, quit_calls, top_error, all_article_links,
                   page_links_found, extract_vars>>

\* PageNoContainers with `continue` in place of `break`
PageNoContainers_Continues ==
    /\ pc = "collect"
    /\ loaded' = Append(loaded, page_num)
    /\ page_outcome' = "no_containers"
    /\ page_slept' = FALSE
    /\ NextPage
    /\ UNCHANGED <<driver, quit_calls, top_error, all_article_links,
                   page_links_found, extract_vars>>

\* the page loads and find_all returns no container
PageNoContainers ==
    /\ pc = "collect"
    /\ loaded' = Append(loaded, page_num)
    /\ page_outcome' = "no_containers"
    /\ page_slept' = FALSE
    /\ BreakPages
    /\ UNCHANGED <<driver, quit_calls, top_error, all_article_links,
                   page_links_found, extract_vars>>

\* the page loads with containers and its links are scanned
PageScanned(scan) ==
    /\ pc = "collect"
    /\ loaded' = Append(loaded, page_num)
    /\ all_article_links' = all_article_links \cup scan.added
    /\ page_links_found' = scan.found
    /\ IF scan.raised
       THEN /\ page_outcome' = "ValueError"
            /\ page_slept' = FALSE
            /\ NextPage
       ELSE IF scan.found = 0 /\ page_num > 0
       THEN /\ page_outcome' = "no_links"
            /\ page_slept' = FALSE
            /\ BreakPages
       ELSE /\ page_outcome' = "scanned"
            /\ page_slept' = TRUE
            /\ NextPage
    /\ UNCHANGED <<driver, quit_calls, top_error, extract_vars>>

-----------------------------------------------------------------------------
(* The parsed article document and the field extraction *)

(***************************************************************************)
(* A document is described by what each query of the extraction code       *)
(* returns on it.  An optional value is <<>> (None) or <<v>>.  An element  *)
(* is the list of its text nodes; an attribute dictionary of a meta or     *)
(* time tag is the optional value of the one attribute the code reads.     *)
(*   h1                  soup.find('h1')                                   *)
(*   byline_name         soup.find(class_='c-article-byline__name')        *)
(*   meta_author         soup.find('meta', {'name': 'author'})             *)
(*   byline_div          soup.find('div', class_='c-article-byline'), with *)
(*                       its span.c-article-byline__name and its           *)
(*                       a.u-hover-underline                               *)
(*   time                soup.find('time')                                 *)
(*   meta_published      soup.find('meta', {'property': 'article:published_time'}) *)
(*   meta_pubdate        soup.find('meta', {'name': 'pubdate'})            *)
(*   date_span           soup.find('span', class_='c-article-byline__date') *)
(*   content_paragraphs  soup.select('div.c-article-content > p')          *)
(*   article_body        soup.find('div', class_='c-article__body'), as    *)
(*                       its find_all('p')                                 *)
(*   article             soup.find('article'), as its find_all('p')        *)
(***************************************************************************)

None == <<>>

Some(v) == <<v>>

\* element.get_text(strip=True): the stripped, non-empty text nodes, concatenated
RECURSIVE GetText(_)
GetText(element) ==
    IF element = <<>> THEN <<>>
    ELSE Strip(Head(element)) \o GetText(Tail(element))

\* [p.get_text(strip=True) for p in paragraphs]
RECURSIVE Texts(_)
Texts(paragraphs) ==
    IF paragraphs = <<>> THEN <<>>
    ELSE <<GetText(Head(paragraphs))>> \o Texts(Tail(paragraphs))

ExtractTitle(soup) ==
    IF soup.h1 # None THEN GetText(soup.h1[1]) ELSE NA

ExtractAuthor(soup) ==
    IF soup.byline_name # None THEN GetText(soup.byline_name[1])
    ELSE IF soup.meta_author # None /\ soup.meta_author[1] # None
    THEN soup.meta_author[1][1]
    ELSE IF soup.byline_div # None
    THEN IF soup.byline_div[1].name_span # None
         THEN GetText(soup.byline_div[1].name_span[1])
         ELSE IF soup.byline_div[1].hover_link # None
         THEN GetText(soup.byline_div[1].hover_link[1])
         ELSE NA
    ELSE NA

ExtractDate(soup) ==
    IF soup.time # None /\ soup.time[1] # None THEN soup.time[1][1]
    ELSE LET meta_pub_date == IF soup.meta_published # None
                              THEN soup.meta_published
                              ELSE soup.meta_pubdate
         IN  IF meta_pub_date # None /\ meta_pub_date[1] # None
             THEN meta_pub_date[1][1]
             ELSE IF soup.date_span # None THEN GetText(soup.date_span[1])
             ELSE NA

\* ExtractContent with the third rule tried whenever the second yields nothing
ExtractContent_FallsThrough(soup) ==
    IF soup.content_paragraphs # <<>>
    THEN Join(Texts(soup.content_paragraphs), <<"\n">>)
    ELSE IF soup.article_body # None /\ soup.article_body[1] # <<>>
    THEN Join(Texts(soup.article_body[1]), <<"\n">>)
    ELSE IF soup.article # None /\ soup.article[1] # <<>>
    THEN Join(Texts(soup.article[1]), <<"\n">>)
    ELSE NA

\* content: the three rules of the cascade
ExtractContent(soup) ==
    IF soup.content_paragraphs # <<>>
    THEN Join(Texts(soup.content_paragraphs), <<"\n">>)
    ELSE IF soup.article_body # None
    THEN IF soup.article_body[1] # <<>>
         THEN Join(Texts(soup.article_body[1]), <<"\n">>)
         ELSE NA
    ELSE IF soup.article # None
    THEN IF soup.article[1] # <<>>
         THEN Join(Texts(soup.article[1]), <<"\n">>)
         ELSE NA
    ELSE NA

\* the dictionary appended to article_data
ExtractRecord(link, soup) ==
    [url |-> link,
     title |-> ExtractTitle(soup),
     author |-> ExtractAuthor(soup),
     publication_date |-> ExtractDate(soup),
     content |-> ExtractContent(soup)]

(* The documents of the model *)

TextA == <<"A", ".">>
TextJane == <<"J", "a", "n", "e">>
TextDate == <<"2", "0", "2", "4", "-", "0", "1", "-", "0", "2">>

\* <p>A.</p> and <p> B<b>. </b></p>
ParaA == <<TextA>>
ParaB == << <<" ", "B">>, <<".", " ">> >>

Paragraphs == {ParaA, ParaB}

ParagraphLists == SeqsOf(Paragraphs, 0, MaxParagraphs)

OptionalOf(S) == {None} \cup {Some(v) : v \in S}

\* a document on which no query of the extraction code matches
DocBare ==
    [parsed |-> TRUE,
     h1 |-> None, byline_name |-> None, meta_author |-> None,
     byline_div |-> None, time |-> None, meta_published |-> None,
     meta_pubdate |-> None, date_span |-> None,
     content_paragraphs |-> <<>>, article_body |-> None, article |-> None]

\* a document on which the first rule of every field matches
DocFull ==
    [DocBare EXCEPT !.h1 = Some(ParaB),
                    !.byline_name = Some(<<TextJane>>),
                    !.byline_div = Some([name_span |-> Some(<<TextJane>>),
                                         hover_link |-> None]),
                    !.time = Some(Some(TextDate)),
                    !.content_paragraphs = <<ParaA, ParaB>>,
                    !.article = Some(<<ParaA, ParaB>>)]

\* a document on which only later rules match: a meta author, a published_time
\* meta tag without content beside a pubdate tag, an empty body container
\* inside an article that has paragraphs
DocFallback ==
    [DocBare EXCEPT !.h1 = Some(<<TextA>>),
                    !.meta_author = Some(Some(TextJane)),
                    !.byline_div = Some([name_span |-> None,
                                         hover_link |-> Some(<<TextJane>>)]),
                    !.time = Some(None),
                    !.meta_published = Some(None),
                    !.meta_pubdate = Some(Some(TextDate)),
                    !.date_span = Some(<<TextDate>>),
                    !.article_body = Some(<<>>),
                    !.article = Some(<<ParaA, ParaB>>)]

Docs == {DocBare, DocFull, DocFallback}

\* the documents that differ in what the three content queries return
ContentDocs ==
    {[DocBare EXCEPT !.content_paragraphs = c, !.article_body = b, !.article = a] :
        c \in ParagraphLists,
        b \in OptionalOf(ParagraphLists),
        a \in OptionalOf(ParagraphLists)}

-----------------------------------------------------------------------------
(* The article-extraction loop, the result table and the end of the script *)

\* list(all_article_links): the members of the set in some order
Orderings(S) ==
    {order \in [1..Cardinality(S) -> S] :
        \A j, k \in 1..Cardinality(S) : order[j] = order[k] => j = k}

\* the statements between the two loops
StartExtraction ==
    /\ pc = "collected"
    /\ \E order \in Orderings(all_article_links) :
          /\ links_to_process' = order
          /\ pc' = IF order = <<>> THEN "assemble" ELSE "extract"
    /\ article_data' = <<>>
    /\ i' = 0
    /\ UNCHANGED <<driver, quit_calls, top_error, collect_vars, article_soup,
                   article_outcome, article_slept, fetched, failed>>

\* `continue`, or the end of the loop body: the next item of the enumeration,
\* or the end of the loop, which leaves i at its last value
NextArticle ==
    IF i + 1 < Len(links_to_process)
    THEN i' = i + 1 /\ pc' = "extract"
    ELSE i' = i /\ pc' = "assemble"

RequestExceptions == {"Timeout", "HTTPError", "RequestException"}

ParseExceptions == {"AttributeError", "TypeError", "Exception"}

\* ArticleRequestFails with a record of "N/A" fields appended for the failed link
ArticleRequestFails_AppendsNA(exc) ==
    /\ pc = "extract"
    /\ fetched' = Append(fetched, links_to_process[i + 1])
    /\ failed' = failed \cup {links_to_process[i + 1]}
    /\ article_data' = Append(article_data,
                              [url |-> links_to_process[i + 1], title |-> NA,
                               author |-> NA, publication_date |-> NA,
                               content |-> NA])
    /\ article_outcome' = exc
    /\ article_slept' = FALSE
    /\ NextArticle
    /\ UNCHANGED <<driver, quit_calls, top_error, collect_vars,
                   links_to_process, article_soup>>

\* ArticleRequestFails with the failed link tried again
ArticleRequestFails_Retries(exc) ==
    /\ pc = "extract"
    /\ fetched' = Append(fetched, links_to_process[i + 1])
    /\ failed' = failed \cup {links_to_process[i + 1]}
    /\ article_outcome' = exc
    /\ article_slept' = FALSE
    /\ UNCHANGED <<pc, i>>
    /\ UNCHANGED <<driver, quit_calls, top_error, collect_vars,
                   links_to_process, article_data, article_soup>>

\* requests.get or raise_for_status raises
ArticleRequestFails(exc) ==
    /\ pc = "extract"
    /\ fetched' = Append(fetched, links_to_process[i + 1])
    /\ failed' = failed \cup {links_to_process[i + 1]}
    /\ article_outcome' = exc
    /\ article_slept' = FALSE
    /\ NextArticle
    /\ UNCHANGED <<driver, quit_calls, top_error, collect_vars,
                   links_to_process, article_data, article_soup>>

\* the response is parsed and the extraction raises before the append
ArticleParseFails(exc, soup) ==
    /\ pc = "extract"
    /\ fetched' = Append(fetched, links_to_process[i + 1])
    /\ article_soup' = soup
    /\ failed' = failed \cup {links_to_process[i + 1]}
    /\ article_outcome' = exc
    /\ article_slept' = FALSE
    /\ NextArticle
    /\ UNCHANGED <<driver, quit_calls, top_error, collect_vars,
                   links_to_process, article_data>>

\* the response is parsed, the fields are extracted and the record is appended
ArticleScraped(soup) ==
    /\ pc = "extract"
    /\ fetched' = Append(fetched, links_to_process[i + 1])
    /\ article_soup' = soup
    /\ article_data' = Append(article_data,
                              ExtractRecord(links_to_process[i + 1], soup))
    /\ article_outcome' = "ok"
    /\ article_slept' = TRUE
    /\ NextArticle
    /\ UNCHANGED <<driver, quit_calls, top_error, collect_vars,
                   links_to_process, failed>>

\* the DataFrame is built and previewed
Assemble ==
    /\ pc = "assemble"
    /\ pc' = "finally"
    /\ UNCHANGED <<driver, quit_calls, top_error, collect_vars, extract_vars>>

\* building or printing the DataFrame raises: the top-level except clause runs
AssembleFails ==
    /\ pc = "assemble"
    /\ top_error' = TRUE
    /\ pc' = "finally"
    /\ UNCHANGED <<driver, quit_calls, collect_vars, extract_vars>>

\* Finally without the `if driver` test
Finally_QuitsUnconditionally ==
    /\ pc = "finally"
    /\ driver' = IF driver = "None" THEN "None" ELSE "closed"
    /\ quit_calls' = quit_calls + 1
    /\ pc' = "done"
    /\ UNCHANGED <<top_error, collect_vars, extract_vars>>

\* the finally clause
Finally ==
    /\ pc = "finally"
    /\ IF driver # "None"
       THEN driver' = "closed" /\ quit_calls' = quit_calls + 1
       ELSE UNCHANGED <<driver, quit_calls>>
    /\ pc' = "done"
    /\ UNCHANGED <<top_error, collect_vars, extract_vars>>

-----------------------------------------------------------------------------
(* The specifications *)

Next ==
    \/ CreateDriver
    \/ CreateDriverFails
    \/ \E exc \in PageSkipExceptions : PageSkip(exc)
    \/ PageAbort
    \/ PageNoContainers
    \/ \E scan \in PageScans : PageScanned(scan)
    \/ StartExtraction
    \/ \E exc \in RequestExceptions : ArticleRequestFails(exc)
    \/ \E exc \in ParseExceptions, soup \in Docs : ArticleParseFails(exc, soup)
    \/ \E soup \in Docs : ArticleScraped(soup)
    \/ Assemble
    \/ AssembleFails
    \/ Finally

Spec == Init /\ [][Next]_vars

\* The state in which the collection loop has ended after page 0 yielded the
\* one link of HrefA and page 1 had no containers, and the extraction loop is
\* about to fetch that link.
AfterOneLinkCollected ==
    /\ pc = "extract"
    /\ driver = "open"
    /\ quit_calls = 0
    /\ top_error = FALSE
    /\ page_num = 1
    /\ all_article_links = {UrlJoin(base_url, HrefA).url}
    /\ page_links_found = 1
    /\ page_outcome = "no_containers"
    /\ page_slept = FALSE
    /\ loaded = <<0, 1>>
    /\ links_to_process = <<UrlJoin(base_url, HrefA).url>>
    /\ i = 0
    /\ article_data = <<>>
    /\ article_soup = NoSoup
    /\ article_outcome = "none"
    /\ article_slept = FALSE
    /\ fetched = <<>>
    /\ failed = {}

\* The extraction of one article over every document of ContentDocs, from
\* AfterOneLinkCollected (a state that Spec reaches).
InitContent == AfterOneLinkCollected

NextContent ==
    \/ \E exc \in RequestExceptions : ArticleRequestFails(exc)
    \/ \E exc \in ParseExceptions, soup \in ContentDocs : ArticleParseFails(exc, soup)
    \/ \E soup \in ContentDocs : ArticleScraped(soup)
    \/ Assemble
    \/ AssembleFails
    \/ Finally

SpecContent == InitContent /\ [][NextContent]_vars

-----------------------------------------------------------------------------
(* The claims *)

Range(s) == {s[k] : k \in 1..Len(s)}

\* the scheme and host of the base URL: https://www.euronews.com
SchemeAndHost == SubSeq(base_url, 1, Len(base_url) - 1)

\* C1: every URL in the collected link set starts with the scheme and host of
\* the base URL and contains a /YYYY/MM/DD/ segment, for every href that
\* passes the collector's test, those that begin with more than one '/'
\* included.
C1_CollectedLinksOnSite ==
    \A link \in all_article_links :
        /\ StartsWith(link, SchemeAndHost)
        /\ MatchesArticlePattern(link)

\* a step of the page loop in which the page was loaded and its containers,
\* if any, were scanned to the end
PageLoadedStep ==
    /\ pc = "collect"
    /\ loaded' # loaded
    /\ page_outcome' \in {"scanned", "no_links", "no_containers"}

\* C2: if a listing page with index > 0 is loaded and adds no new link to the
\* collected set, no page with a higher index is fetched afterwards (the
\* loop ends with that page).
C2_NoNewLinksEndsPagination ==
    [][(PageLoadedStep /\ page_num > 0 /\ all_article_links' = all_article_links)
          => pc' # "collect"]_vars

\* page 0 was the last page handled and it had no containers
FirstPageHadNoContainers ==
    /\ page_num = 0
    /\ page_outcome = "no_containers"

\* C3: if page 0 loads and no article container is found on it, the
\* collection loop stops at once: the link set is empty, no page with index
\* >= 1 is ever fetched, and the extraction stage processes no article.
C3_NoContainersOnFirstPageStops ==
    /\ [][(pc = "collect" /\ page_num = 0 /\ loaded' # loaded
              /\ page_outcome' = "no_containers")
            => (pc' = "collected" /\ all_article_links' = {} /\ loaded' = <<0>>)]_vars
    /\ [](FirstPageHadNoContainers
            => /\ pc # "collect"
               /\ all_article_links = {}
               /\ loaded = <<0>>
               /\ links_to_process = <<>>
               /\ fetched = <<>>
               /\ article_data = <<>>)

C3_Witness ==
    /\ pc = "done"
    /\ FirstPageHadNoContainers
    /\ quit_calls = 1

\* C4: for every collected link whose fetch fails, the result list holds no
\* record with that URL; the number of records never exceeds the number of
\* collected links, and at the end it is strictly less when a link failed.
C4_FailedLinksHaveNoRecord ==
    /\ \A link \in failed :
          \A k \in 1..Len(article_data) : article_data[k].url # link
    /\ Len(article_data) <= Cardinality(all_article_links)
    /\ (pc = "done" /\ failed # {})
          => Len(article_data) < Cardinality(all_article_links)

C4_Witness ==
    /\ pc = "done"
    /\ article_outcome = "HTTPError"
    /\ article_data # <<>>
    /\ Cardinality(failed) = 2

\* C5: on every path of the run a browser session that was acquired is
\* released exactly once before the run ends, and quit is never called on a
\* session that was not acquired.
C5_DriverReleasedExactlyOnce ==
    /\ quit_calls <= 1
    /\ driver = "None" => quit_calls = 0
    /\ (pc = "done" /\ driver # "None") => (quit_calls = 1 /\ driver = "closed")
    /\ pc # "done" => quit_calls = 0

C5_Witness ==
    /\ pc = "done"
    /\ quit_calls = 1
    /\ page_outcome = "WebDriverException"
    /\ top_error

\* `continue` was taken from the page held by page_num
MovedToNextPage ==
    IF page_num + 1 < max_pages_to_scrape
    THEN pc' = "collect" /\ page_num' = page_num + 1
    ELSE pc' = "collected"

\* C6: a page-load timeout, a missing-element error or any other
\* non-WebDriver exception on page i leaves the link set as it was and moves
\* on to page i+1 (an exception raised while the page's links are scanned
\* keeps the links added before it); a WebDriver error ends the loop; the
\* links accumulated are never discarded and are all handed to the
\* extraction stage.
C6_PageFailuresKeepLinks ==
    /\ [][(pc = "collect" /\ loaded' # loaded)
            => /\ page_outcome' \in PageSkipExceptions
                    => (all_article_links' = all_article_links /\ MovedToNextPage)
               /\ page_outcome' = "ValueError"
                    => (all_article_links \subseteq all_article_links' /\ MovedToNextPage)
               /\ page_outcome' = "WebDriverException"
                    => (all_article_links' = all_article_links /\ pc' = "collected")]_vars
    /\ [][all_article_links \subseteq all_article_links']_vars
    /\ [](pc \in {"extract", "assemble", "finally", "done"}
            => Range(links_to_process) = all_article_links)

C6_Witness ==
    /\ pc = "extract"
    /\ page_outcome = "WebDriverException"
    /\ page_num = 2
    /\ Cardinality(all_article_links) = 2
    /\ Len(links_to_process) = 2

\* C7: the content field is the newline-joined paragraph text given by the
\* first of the three content rules that yields paragraphs, and is "N/A"
\* only when none of the three yields any paragraph.
C7_FirstYieldingRuleWins ==
    article_outcome = "ok" =>
        LET rule1 == article_soup.content_paragraphs
            rule2 == IF article_soup.article_body # None
                     THEN article_soup.article_body[1] ELSE <<>>
            rule3 == IF article_soup.article # None
                     THEN article_soup.article[1] ELSE <<>>
            first == IF rule1 # <<>> THEN rule1
                     ELSE IF rule2 # <<>> THEN rule2 ELSE rule3
        IN  article_data[Len(article_data)].content
              = IF first = <<>> THEN NA ELSE Join(Texts(first), <<"\n">>)

\* C7 as amended: the third rule is consulted only when the document has no
\* div.c-article__body; a body container without paragraphs gives "N/A".
C7_BodyContainerEndsCascade ==
    article_outcome = "ok" =>
        LET rule1 == article_soup.content_paragraphs
            chosen == IF rule1 # <<>> THEN rule1
                      ELSE IF article_soup.article_body # None
                      THEN article_soup.article_body[1]
                      ELSE IF article_soup.article # None
                      THEN article_soup.article[1]
                      ELSE <<>>
        IN  article_data[Len(article_data)].content
              = IF chosen = <<>> THEN NA ELSE Join(Texts(chosen), <<"\n">>)

C7_Witness ==
    /\ article_outcome = "ok"
    /\ article_soup.content_paragraphs = <<>>
    /\ article_soup.article_body = Some(<<>>)
    /\ article_soup.article = Some(<<ParaA, ParaB>>)
    /\ article_data[Len(article_data)].content = NA

\* C8: between the load of page i and the load of the next page that is
\* fetched, the inter-page delay is performed, whatever the outcome of page i.
C8_DelayBetweenPageLoads ==
    [][(loaded # <<>> /\ loaded' # loaded) => page_slept]_vars

\* C9: the inter-article delay is performed after every article attempt,
\* whether it appended a record or failed and was skipped.
C9_DelayAfterEveryArticle ==
    article_outcome # "none" => article_slept

\* C10: no unit of work is retried: the page indices are loaded at most once
\* and in increasing order, each collected link is fetched exactly once, and
\* the extraction loop begins only after the collection loop has ended, so
\* the link set no longer changes while articles are fetched.
C10_NoRetrySequentialStages ==
    /\ [](/\ \A k \in 1..Len(loaded) : loaded[k] \in 0..(max_pages_to_scrape - 1)
          /\ \A j, k \in 1..Len(loaded) : j < k => loaded[j] < loaded[k]
          /\ \A j, k \in 1..Len(fetched) : fetched[j] = fetched[k] => j = k
          /\ Range(fetched) \subseteq all_article_links
          /\ pc \in {"assemble", "finally", "done"}
                => Range(fetched) = all_article_links
          /\ fetched # <<>> => pc \in {"extract", "assemble", "finally", "done"})
    /\ [][pc \notin {"start", "collect"}
            => (all_article_links' = all_article_links /\ loaded' = loaded)]_vars

C10_Witness ==
    /\ pc = "done"
    /\ Len(loaded) = max_pages_to_scrape
    /\ Len(fetched) = 3
    /\ failed # {}
    /\ article_data # <<>>

=============================================================================
